---- MODULE Spec2Model ----
(***************************************************************************)
(* mt-dhcpstat: one run of main() in main.go against a RouterOS router.    *)
(* The run issues the dhcp-server query, then per binding the pool query   *)
(* and the pool-usage query, printing a table (text mode) or one JSON      *)
(* value (-json).  Byte strings that the program parses (the "ranges"      *)
(* field) are sequences of one-character strings; interface names, pool    *)
(* names and the library's error text are opaque strings.                  *)
(***************************************************************************)
EXTENDS Integers, Sequences, FiniteSets, TLC

VARIABLES js, servers, poolTable, pc, res, i, p, pools, stdout, stderr,
          exitCode, queries

vars == <<js, servers, poolTable, pc, res, i, p, pools, stdout, stderr,
          exitCode, queries>>

(* ------------------------------- bounds -------------------------------- *)
\* longest list of enabled dhcp servers the router reports
MaxBindings == 2
\* most addresses the router reports in use for one pool
MaxUsed == 1
\* most segments in a well-formed ranges field (specification SpecRange)
MaxSegs == 2

\* last octets used to build well-formed ranges: one, two and three digits
Octets == {0, 20, 255}

Interfaces == {"ether1", "ether2"}
PoolNames == {"pool1", "pool2"}
\* the text of the error value the routeros library returns
ErrText == "<err>"

(* --------------------------- byte strings ------------------------------ *)
Digits == <<"0", "1", "2", "3", "4", "5", "6", "7", "8", "9">>

DigitVal(c) == (CHOOSE k \in 1..10 : Digits[k] = c) - 1

IsDigit(c) == \E k \in 1..10 : Digits[k] = c

\* decimal text of a natural number, as the router prints an octet
RECURSIVE Itoa(_)
Itoa(n) == IF n < 10 THEN <<Digits[n + 1]>>
           ELSE Itoa(n \div 10) \o <<Digits[(n % 10) + 1]>>

\* strings.Split(s, sep) for a one-byte separator: n separators give n+1
\* pieces, empty pieces kept
RECURSIVE SplitFrom(_, _, _, _)
SplitFrom(s, sep, k, cur) ==
    IF k > Len(s) THEN <<cur>>
    ELSE IF s[k] = sep THEN <<cur>> \o SplitFrom(s, sep, k + 1, <<>>)
    ELSE SplitFrom(s, sep, k + 1, Append(cur, s[k]))

Split(s, sep) == SplitFrom(s, sep, 1, <<>>)

\* the digit loop of strconv.Atoi: value of the digits, or syntax error at
\* the first byte that is no digit
RECURSIVE AtoiDigits(_, _, _)
AtoiDigits(s, k, n) ==
    IF k > Len(s) THEN [val |-> n, err |-> FALSE]
    ELSE IF ~IsDigit(s[k]) THEN [val |-> 0, err |-> TRUE]
    ELSE AtoiDigits(s, k + 1, n * 10 + DigitVal(s[k]))

\* strconv.Atoi for strings shorter than 19 bytes (its fast path): optional
\* sign, then digits; on a syntax error the value is 0
Atoi(s) ==
    IF s = <<>> THEN [val |-> 0, err |-> TRUE]
    ELSE LET signed == s[1] = "-" \/ s[1] = "+"
             body == IF signed THEN SubSeq(s, 2, Len(s)) ELSE s
             r == AtoiDigits(body, 1, 0)
         IN  IF body = <<>> THEN [val |-> 0, err |-> TRUE]
             ELSE IF r.err THEN r
             ELSE [val |-> IF s[1] = "-" THEN 0 - r.val ELSE r.val,
                   err |-> FALSE]

(* ------------------------------ router --------------------------------- *)
\* the first three octets of every address of the modelled router
AddrPrefix == <<"1", "0", ".", "0", ".", "0", ".">>

Addr(o) == AddrPrefix \o Itoa(o)

\* the "ranges" field of a pool whose ranges are segs: "lo-hi,lo-hi,..."
RECURSIVE FmtRanges(_)
FmtRanges(segs) ==
    IF segs = <<>> THEN <<>>
    ELSE LET one == Addr(segs[1][1]) \o <<"-">> \o Addr(segs[1][2])
         IN  IF Len(segs) = 1 THEN one
             ELSE one \o <<",">> \o FmtRanges(Tail(segs))

\* a pool the router does not have, a pool with the given ranges, and a pool
\* whose ranges field is the given text
NoPool == [kind |-> "none", segs |-> <<>>, text |-> <<>>]
RangesPool(segs) == [kind |-> "segs", segs |-> segs, text |-> <<>>]
TextPool(t) == [kind |-> "text", segs |-> <<>>, text |-> t]

\* ranges fields that are not "A.B.C.lo-A.B.C.hi" lists
BadOctet == AddrPrefix \o <<"x", "-">> \o Addr(20)
NoSeparator == Addr(10)
ShortAddr == <<"1", "0", ".", "5", "-">> \o Addr(20)

Seg == Octets \X Octets

RECURSIVE SeqsUpTo(_, _)
SeqsUpTo(S, n) ==
    IF n = 0 THEN {<<>>}
    ELSE LET shorter == SeqsUpTo(S, n - 1)
         IN  shorter \cup {Append(q, x) : q \in {t \in shorter : Len(t) = n - 1}, x \in S}

SegLists == SeqsUpTo(Seg, MaxSegs)

\* the records the router returns for /ip/pool/print name=<the pool>
PoolReply(cfg) ==
    IF cfg.kind = "none" THEN <<>>
    ELSE IF cfg.kind = "segs" THEN <<[ranges |-> FmtRanges(cfg.segs)]>>
    ELSE <<[ranges |-> cfg.text]>>

\* the records the router may return for /ip/pool/used/print pool=<the pool>
UsedReplies == {[k \in 1..n |-> [address |-> Addr(10 + k)]] : n \in 0..MaxUsed}

\* r.Query: the library's error, or the router's records
QueryError == [err |-> TRUE, sub |-> <<>>]
QueryOk(sub) == [err |-> FALSE, sub |-> sub]

(* ----------------------------- main.go --------------------------------- *)
\* getPoolUsed: the address of every record, or the query's error
getPoolUsed(out) ==
    IF out.err THEN [addrs |-> <<>>, err |-> TRUE]
    ELSE [addrs |-> [k \in 1..Len(out.sub) |-> out.sub[k].address], err |-> FALSE]

\* the loop of getPoolRange over the comma-separated pieces: rng[1] of a
\* piece without "-" is an index out of range, a run-time panic
RECURSIVE RangesOf(_)
RangesOf(pieces) ==
    IF pieces = <<>> THEN [ranges |-> <<>>, panic |-> FALSE]
    ELSE LET rng == Split(pieces[1], "-")
         IN  IF Len(rng) < 2 THEN [ranges |-> <<>>, panic |-> TRUE]
             ELSE LET rest == RangesOf(Tail(pieces))
                  IN  [ranges |-> <<[Min |-> rng[1], Max |-> rng[2]]>> \o rest.ranges,
                       panic |-> rest.panic]

getPoolRangeErrOnEmpty(out) ==
    IF out.err \/ Len(out.sub) = 0 \/ out.sub[1].ranges = <<>>
    THEN [ranges |-> <<>>, err |-> TRUE, panic |-> FALSE]
    ELSE LET r == RangesOf(Split(out.sub[1].ranges, ","))
         IN  [ranges |-> r.ranges, err |-> FALSE, panic |-> r.panic]

\* getPoolRange: the IPRange list of the first record, the query's error, or
\* a panic; no record and an empty ranges field give the empty list
getPoolRange(out) ==
    IF out.err THEN [ranges |-> <<>>, err |-> TRUE, panic |-> FALSE]
    ELSE IF Len(out.sub) = 0 THEN [ranges |-> <<>>, err |-> FALSE, panic |-> FALSE]
    ELSE IF out.sub[1].ranges = <<>> THEN [ranges |-> <<>>, err |-> FALSE, panic |-> FALSE]
    ELSE LET r == RangesOf(Split(out.sub[1].ranges, ","))
         IN  [ranges |-> r.ranges, err |-> FALSE, panic |-> r.panic]

RangeSizeInclusive(min, max) == max - min + 1

\* what one range adds to size
RangeSize(min, max) == max - min

\* the size loop of main: the fourth dot-separated part of Min and of Max,
\* each through Atoi with its error dropped; fewer than four parts is an
\* index out of range
RECURSIVE PoolSize(_)
PoolSize(pool) ==
    IF pool = <<>> THEN [size |-> 0, panic |-> FALSE]
    ELSE LET minparts == Split(pool[1].Min, ".")
             maxparts == Split(pool[1].Max, ".")
         IN  IF Len(minparts) < 4 \/ Len(maxparts) < 4
             THEN [size |-> 0, panic |-> TRUE]
             ELSE LET rest == PoolSize(Tail(pool))
                  IN  [size |-> RangeSize(Atoi(minparts[4]).val, Atoi(maxparts[4]).val)
                                  + rest.size,
                       panic |-> rest.panic]

\* what the process writes to stderr
JsonError(msg) == [fmt |-> "json", msg |-> msg]
TextError(msg) == [fmt |-> "text", msg |-> msg]
PanicTrace == [fmt |-> "panic", msg |-> <<"panic: runtime error: index out of range">>]

FatalNoExit(mode, jsmsg, textmsg) ==
    IF mode THEN <<JsonError(jsmsg), TextError(textmsg)>> ELSE <<TextError(textmsg)>>

\* "if js { jserror(..) }; fmt.Fprintf(os.Stderr, ..); os.Exit(1)": jserror
\* exits, so exactly one of the two is written
Fatal(mode, jsmsg, textmsg) ==
    IF mode THEN <<JsonError(jsmsg)>> ELSE <<TextError(textmsg)>>

BindingsJsMsg == <<"Error fetching list of dhcp interfaces from router">>
BindingsTextMsg == <<"Error fetching list of dhcp interfaces: ", ErrText, "\n">>
PoolJsMsg(poolName) == <<"Error fetching pool information for pool ", poolName>>
PoolTextMsg(poolName) == <<"Error fetching pool information: ", ErrText, "\n">>
UsedJsMsg(poolName) == <<"Error fetching pool usage for pool ", poolName>>
UsedTextMsg(poolName) == <<"Error fetching pool usage for pool ", poolName, ": ", ErrText, "\n">>

\* what the process writes to stdout
Header == [kind |-> "header", Interface |-> "Interface", Used |-> 0, Free |-> 0, json |-> <<>>]
Line(ps) == [kind |-> "line", Interface |-> ps.Interface, Used |-> ps.Used,
             Free |-> ps.Size - ps.Used, json |-> <<>>]
JsonOut(toks) == [kind |-> "json", Interface |-> "", Used |-> 0, Free |-> 0, json |-> toks]

\* JSON text as tokens: punctuation and strings [s |-> ..], numbers [n |-> ..]
Tok(s) == [s |-> s]
Num(n) == [n |-> n]

MarshalPoolStat(ps) ==
    <<Tok("{"), Tok("Interface"), Tok(":"), Tok(ps.Interface), Tok(","),
      Tok("Used"), Tok(":"), Num(ps.Used), Tok(","),
      Tok("Size"), Tok(":"), Num(ps.Size), Tok("}")>>

RECURSIVE MarshalElems(_)
MarshalElems(ps) ==
    IF Len(ps) = 1 THEN MarshalPoolStat(ps[1])
    ELSE MarshalPoolStat(ps[1]) \o <<Tok(",")>> \o MarshalElems(Tail(ps))

\* json.Marshal of the []PoolStat: "var pools []PoolStat" is nil until the
\* first append, and a nil slice is encoded as null
Marshal(ps) ==
    IF ps = <<>> THEN <<Tok("null")>>
    ELSE <<Tok("[")>> \o MarshalElems(ps) \o <<Tok("]")>>

Query(path, key, value, out) ==
    [path |-> path, key |-> key, value |-> value, err |-> out.err, n |-> Len(out.sub)]

LogQueryCached(log, q) ==
    IF \E k \in 1..Len(log) : log[k].path = q.path /\ log[k].value = q.value
    THEN log ELSE Append(log, q)

\* the queries issued so far, in order
LogQuery(log, q) == Append(log, q)

AppendPoolFront(ps, ps1) == <<ps1>> \o ps

\* pools = append(pools, p)
AppendPool(ps, ps1) == Append(ps, ps1)

PrintLineAlways(mode, out, ps) == Append(out, Line(ps))

\* "if !js { fmt.Printf(...) }" inside the loop
PrintLine(mode, out, ps) == IF mode THEN out ELSE Append(out, Line(ps))

ZeroStat == [Interface |-> "", Used |-> 0, Size |-> 0]

Router == <<servers, poolTable>>

\* the dhcp-server query and the header line
FetchBindings ==
    /\ pc = "bindings"
    /\ \E out \in {QueryError, QueryOk(servers)} :
          /\ queries' = LogQuery(queries, Query("/ip/dhcp-server/getall", "disabled", "no", out))
          /\ IF out.err
             THEN /\ stderr' = stderr \o Fatal(js, BindingsJsMsg, BindingsTextMsg)
                  /\ exitCode' = 1
                  /\ pc' = "exit"
                  /\ UNCHANGED <<res, stdout>>
             ELSE /\ res' = out.sub
                  /\ stdout' = IF js THEN stdout ELSE Append(stdout, Header)
                  /\ pc' = "loop"
                  /\ UNCHANGED <<stderr, exitCode>>
    /\ UNCHANGED <<js, Router, i, p, pools>>

\* a binding without address-pool: continue
SkipBinding ==
    /\ pc = "loop"
    /\ i <= Len(res)
    /\ res[i].pool = ""
    /\ i' = i + 1
    /\ UNCHANGED <<js, Router, pc, res, p, pools, stdout, stderr, exitCode, queries>>

\* getPoolRange for the binding's pool and the size loop
QueryPool ==
    /\ pc = "loop"
    /\ i <= Len(res)
    /\ res[i].pool # ""
    /\ LET poolName == res[i].pool
       IN  \E out \in {QueryError, QueryOk(PoolReply(poolTable[poolName]))} :
             LET pool == getPoolRange(out)
                 sz == PoolSize(pool.ranges)
             IN  /\ queries' = LogQuery(queries, Query("/ip/pool/print", "name", poolName, out))
                 /\ IF pool.err
                    THEN /\ stderr' = stderr \o Fatal(js, PoolJsMsg(poolName), PoolTextMsg(poolName))
                         /\ exitCode' = 1
                         /\ pc' = "exit"
                         /\ p' = p
                    ELSE IF pool.panic \/ sz.panic
                    THEN /\ stderr' = Append(stderr, PanicTrace)
                         /\ exitCode' = 2
                         /\ pc' = "exit"
                         /\ p' = p
                    ELSE /\ p' = [Interface |-> res[i].interface, Used |-> 0, Size |-> sz.size]
                         /\ pc' = "used"
                         /\ UNCHANGED <<stderr, exitCode>>
    /\ UNCHANGED <<js, Router, res, i, pools, stdout>>

\* getPoolUsed for the binding's pool, the table line, the append
QueryUsed ==
    /\ pc = "used"
    /\ LET poolName == res[i].pool
       IN  \E out \in {QueryError} \cup {QueryOk(u) : u \in UsedReplies} :
             LET used == getPoolUsed(out)
                 ps == [p EXCEPT !.Used = Len(used.addrs)]
             IN  /\ queries' = LogQuery(queries, Query("/ip/pool/used/print", "pool", poolName, out))
                 /\ IF used.err
                    THEN /\ stderr' = stderr \o Fatal(js, UsedJsMsg(poolName), UsedTextMsg(poolName))
                         /\ exitCode' = 1
                         /\ pc' = "exit"
                         /\ UNCHANGED <<i, p, pools, stdout>>
                    ELSE /\ p' = ps
                         /\ stdout' = PrintLine(js, stdout, ps)
                         /\ pools' = AppendPool(pools, ps)
                         /\ i' = i + 1
                         /\ pc' = "loop"
                         /\ UNCHANGED <<stderr, exitCode>>
    /\ UNCHANGED <<js, Router, res>>

\* after the loop: the JSON value in -json mode, then return from main
Finish ==
    /\ pc = "loop"
    /\ i > Len(res)
    /\ stdout' = IF js THEN Append(stdout, JsonOut(Marshal(pools))) ELSE stdout
    /\ exitCode' = 0
    /\ pc' = "exit"
    /\ UNCHANGED <<js, Router, res, i, p, pools, stderr, queries>>

Next == FetchBindings \/ SkipBinding \/ QueryPool \/ QueryUsed \/ Finish

Binding == [interface : Interfaces, pool : PoolNames \cup {""}]

\* the pools of the router in specification Spec
PoolCfgs == {NoPool, RangesPool(<<>>), RangesPool(<<<<10, 20>>>>),
             RangesPool(<<<<10, 20>>, <<30, 40>>>>),
             TextPool(BadOctet), TextPool(NoSeparator), TextPool(ShortAddr)}

Start ==
    /\ js \in BOOLEAN
    /\ pc = "bindings"
    /\ res = <<>>
    /\ i = 1
    /\ p = ZeroStat
    /\ pools = <<>>
    /\ stdout = <<>>
    /\ stderr = <<>>
    /\ exitCode = -1
    /\ queries = <<>>

Init ==
    /\ servers \in SeqsUpTo(Binding, MaxBindings)
    /\ poolTable \in [PoolNames -> PoolCfgs]
    /\ Start

Spec == Init /\ [][Next]_vars

\* one binding, every well-formed ranges field of up to MaxSegs segments
InitRange ==
    /\ servers \in SeqsUpTo({[interface |-> "ether1", pool |-> "pool1"],
                             [interface |-> "ether2", pool |-> ""]}, 1)
    /\ poolTable \in {[n \in PoolNames |-> IF n = "pool1" THEN RangesPool(segs) ELSE NoPool] :
                        segs \in SegLists}
    /\ Start

SpecRange == InitRange /\ [][Next]_vars

(* ------------------------------ claims --------------------------------- *)
\* the bindings that name a pool, in the router's order
Eligible(bs) == SelectSeq(bs, LAMBDA b : b.pool # "")

RECURSIVE SumSegs(_)
SumSegs(segs) ==
    IF segs = <<>> THEN 0 ELSE (segs[1][2] - segs[1][1]) + SumSegs(Tail(segs))

Elems(q) == {q[k] : k \in 1..Len(q)}

AnyQueryFailed == \E k \in 1..Len(queries) : queries[k].err

Exited(code) == pc = "exit" /\ exitCode = code

\* a reader of the JSON text: null is no list; a list of objects gives the
\* records in order
RECURSIVE ParseElems(_)
ParseElems(t) ==
    IF Len(t) < 13 THEN <<>>
    ELSE <<[Interface |-> t[4].s, Used |-> t[8].n, Size |-> t[12].n]>>
         \o ParseElems(SubSeq(t, 15, Len(t)))

Unmarshal(toks) ==
    IF toks = <<Tok("null")>> THEN [isList |-> FALSE, recs |-> <<>>]
    ELSE [isList |-> TRUE, recs |-> ParseElems(SubSeq(toks, 2, Len(toks) - 1))]

\* C1: in both output modes, a run in which a query fails writes no usage
\* record (no table line, no JSON value) to stdout and ends with an error
\* diagnostic.
C1_NoRecordOnFailure ==
    AnyQueryFailed =>
        /\ \A k \in 1..Len(stdout) : stdout[k].kind = "header"
        /\ stderr # <<>>
        /\ exitCode # 0

\* C2: a binding whose pool has a malformed ranges field (a last octet that
\* is no integer, a segment without "-") never gets a size or a record: the
\* run ends at that binding's pool lookup with a non-zero status and one
\* diagnostic (a run-time panic is counted as such an end).
C2_MalformedRangesAreFatal ==
    /\ (pc = "used" => poolTable[res[i].pool].kind # "text")
    /\ \A k \in 1..Len(pools) : poolTable[Eligible(res)[k].pool].kind # "text"
    /\ \A k \in 1..Len(queries) :
          (queries[k].path = "/ip/pool/print" /\ ~queries[k].err
             /\ poolTable[queries[k].value].kind = "text")
          => (pc = "exit" /\ exitCode # 0 /\ Len(stderr) = 1)

\* C3: for a well-formed ranges field, the size computed for the pool is the
\* sum over its segments of (last octet of high - last octet of low); the
\* empty field gives 0.
C3_SizeIsSumOfSegments ==
    (pc = "used" /\ poolTable[res[i].pool].kind = "segs")
        => p.Size = SumSegs(poolTable[res[i].pool].segs)

C3_Witness ==
    /\ pc = "used"
    /\ poolTable[res[i].pool] = RangesPool(<<<<0, 255>>, <<20, 255>>>>)
    /\ p.Size = 490

\* the capacity of a pool of the router: the sum over its ranges; of a pool
\* the router does not have, 0; of a ranges field of another form, the sum
\* over the bounds main reads from it
Capacity(cfg) ==
    IF cfg.kind = "segs" THEN SumSegs(cfg.segs)
    ELSE IF cfg.kind = "none" THEN 0
    ELSE PoolSize(getPoolRange(QueryOk(PoolReply(cfg))).ranges).size

\* C4: in a run whose queries all succeed, the records are the router's
\* bindings with a non-empty pool name, one record each, in the router's
\* order, each with the binding's interface, the number of records its usage
\* query returned and the capacity of its pool; so there are at most as many
\* records as bindings.
C4_RecordsAreEligibleBindingsInOrder ==
    Exited(0) =>
        LET E == Eligible(servers)
        IN  /\ Len(pools) = Len(E)
            /\ Len(pools) <= Len(servers)
            /\ \A k \in 1..Len(E) :
                  pools[k] = [Interface |-> E[k].interface,
                              Used |-> queries[2 * k + 1].n,
                              Size |-> Capacity(poolTable[E[k].pool])]

C4_Witness ==
    /\ Exited(0)
    /\ Len(servers) = 2
    /\ Len(pools) = 2
    /\ pools[1].Interface = "ether2" /\ pools[2].Interface = "ether1"
    /\ pools[1].Used = 1 /\ pools[2].Used = 0
    /\ pools[1].Size = 10 /\ pools[2].Size = 20

\* C5: a failed query is the last query of the run: the run has ended with
\* exactly one diagnostic on stderr, a JSON error object in -json mode and a
\* plain message otherwise, and a non-zero exit status.
C5_FirstFailureEndsRun ==
    \A k \in 1..Len(queries) :
        queries[k].err =>
            /\ k = Len(queries)
            /\ pc = "exit"
            /\ exitCode # 0
            /\ Len(stderr) = 1
            /\ stderr[1].fmt = (IF js THEN "json" ELSE "text")

C5_Witness ==
    /\ js
    /\ Len(queries) = 4
    /\ queries[4].err
    /\ Exited(1)

QueryKey(q) == <<q.path, q.key, q.value>>

RECURSIVE PerBindingQueries(_)
PerBindingQueries(bs) ==
    IF bs = <<>> THEN <<>>
    ELSE <<<<"/ip/pool/print", "name", bs[1].pool>>,
           <<"/ip/pool/used/print", "pool", bs[1].pool>>>>
         \o PerBindingQueries(Tail(bs))

ExpectedQueries ==
    <<<<"/ip/dhcp-server/getall", "disabled", "no">>>> \o PerBindingQueries(Eligible(servers))

\* C6: the queries issued are, in order, the binding-list query and then,
\* per binding with a pool name in binding order, the pool query and the
\* usage query of its pool, once per binding even when bindings share a
\* pool; a run that succeeds has issued 1 + 2 * (bindings with a pool).
C6_QueriesInOrderUncached ==
    /\ Len(queries) <= Len(ExpectedQueries)
    /\ \A k \in 1..Len(queries) : QueryKey(queries[k]) = ExpectedQueries[k]
    /\ Exited(0) => Len(queries) = 1 + 2 * Len(Eligible(servers))

C6_Witness ==
    /\ Exited(0)
    /\ Len(servers) = 2
    /\ servers[1].pool = "pool1" /\ servers[2].pool = "pool1"
    /\ Len(queries) = 5

\* C7: the diagnostic of a failed query tells which query failed: the
\* binding list, or the pool lookup or the usage lookup together with the
\* name of the pool.
C7_DiagnosticNamesQuery ==
    \A k \in 1..Len(queries) :
        queries[k].err =>
            LET q == queries[k]
                d == stderr[Len(stderr)].msg
            IN  /\ q.path = "/ip/dhcp-server/getall"
                     => d[1] \in {BindingsJsMsg[1], BindingsTextMsg[1]}
                /\ q.path = "/ip/pool/print"
                     => /\ d[1] \in {PoolJsMsg(q.value)[1], PoolTextMsg(q.value)[1]}
                        /\ q.value \in Elems(d)
                /\ q.path = "/ip/pool/used/print"
                     => /\ d[1] \in {UsedJsMsg(q.value)[1], UsedTextMsg(q.value)[1]}
                        /\ q.value \in Elems(d)

NoRanges(cfg) == PoolReply(cfg) = <<>> \/ PoolReply(cfg)[1].ranges = <<>>

\* C8: a pool query that returns no record, or a record with an empty ranges
\* field, is no error: the run goes on with size 0, the next query is the
\* usage query of that pool, and when that succeeds the binding's record has
\* size 0 (and its table line is printed in text mode).
C8_MissingPoolIsSizeZero ==
    \A k \in 1..Len(queries) :
        (queries[k].path = "/ip/pool/print" /\ ~queries[k].err
           /\ NoRanges(poolTable[queries[k].value]))
        => /\ k = Len(queries) => (pc = "used" /\ p.Size = 0 /\ stderr = <<>>)
           /\ k < Len(queries) =>
                 /\ queries[k + 1].path = "/ip/pool/used/print"
                 /\ queries[k + 1].value = queries[k].value
                 /\ ~queries[k + 1].err =>
                       /\ Len(pools) >= k \div 2
                       /\ pools[k \div 2].Size = 0
                       /\ ~js => stdout[1 + (k \div 2)] = Line(pools[k \div 2])

C8_Witness ==
    /\ Exited(0)
    /\ ~js
    /\ Len(servers) = 2
    /\ servers[1].pool # "" /\ servers[2].pool # ""
    /\ poolTable[servers[1].pool] = NoPool
    /\ poolTable[servers[2].pool] = RangesPool(<<>>)
    /\ Len(pools) = 2
    /\ pools[1].Size = 0 /\ pools[2].Size = 0
    /\ stdout[2].Free = -1

\* C9: in -json mode a successful run writes one value to stdout that is a
\* list of objects and reads back as the records, in order, whatever their
\* number.
C9_JsonRoundTrip ==
    (js /\ Exited(0)) =>
        /\ Len(stdout) = 1
        /\ Unmarshal(stdout[1].json).isList
        /\ Unmarshal(stdout[1].json).recs = pools

\* C10: in -json mode stdout is written at most once, and only when the
\* binding-list query and every pool and usage query have been issued and
\* have succeeded; no run writes an error to stderr and anything to stdout.
C10_JsonStdoutOnlyAfterAllQueries ==
    js =>
        /\ Len(stdout) <= 1
        /\ stdout # <<>> =>
              /\ Exited(0)
              /\ stderr = <<>>
              /\ ~AnyQueryFailed
              /\ Len(queries) = 1 + 2 * Len(Eligible(servers))
              /\ stdout[1].kind = "json"

C10_Witness ==
    /\ js
    /\ stdout # <<>>
    /\ Len(queries) = 5
    /\ Len(pools) = 2

====
